---- MODULE Spec2Model ----
(***************************************************************************)
(* Model of src/app.py (FAQ Processing Suite): the FAQ Mapper run (fuzzy   *)
(* stage and keyword fallback) as a state machine, the FAQ Corrector       *)
(* helper functions as operators, and the FAQ Corrector run ("Process Both *)
(* Files") with the session state both runs publish to.                    *)
(*                                                                         *)
(* Text is modelled as a sequence of one-character strings, so that the    *)
(* regular-expression steps of the source (collapse, strip, split,         *)
(* substring test) are computed and not assumed.  A cell value is a record *)
(* [kind, chars]: kind "str" (a Python str), "num" (a number, whose str()  *)
(* is chars) or "null" (None / NaN, for which pd.isna is true).            *)
(***************************************************************************)
EXTENDS Integers, Sequences, FiniteSets, TLC

VARIABLES
    \* ---- FAQ Mapper: inputs of one script execution
    dictColsRaw,      \* header of the uploaded dictionary (sequence of names)
    dictRows,         \* rows of the uploaded dictionary: [full_faq, levels]
    evalCols,         \* header of the uploaded evaluation file
    evalRaw,          \* the cells of the selected FAQ column, one per row
    metric,           \* the similarity scorer of thefuzz: <<text, choice>> -> score
    threshold,        \* st.slider value
    use_keywords,     \* st.checkbox value
    keyword_text,     \* lines of the keyword text area, split at the arrow
    \* ---- FAQ Mapper: state of the execution
    pc,               \* position of the script
    dictCols,         \* faq_dict.columns after line 565
    error,            \* what st.error showed
    faq_col,          \* column chosen in the select box (line 589)
    keyword_mappings, \* parsed keyword table (lines 626-633), insertion order
    eval_df,          \* rows of eval_df: faq_clean, faq_mapped, mapping_score, levels, mapping_status
    faq_dict,         \* dictionary rows with faq_clean, deduplicated
    choices,          \* faq_dict['faq_clean'].tolist()
    mapped,           \* the Series of line 652 so far: one fuzzy_map_faq result per row
    kwRows,           \* eval_df[unmapped_mask].index still to visit
    kwPos,            \* position of the inner loop in keyword_mappings
    keyword_mapped,   \* counter of line 681
    mapped_df,        \* st.session_state.mapped_df
    \* ---- FAQ Mapper: history of the run (not read by the program)
    fuzzyCalls,       \* rows passed to fuzzy_map_faq, in order
    scorerCalls,      \* rows for which process.extractOne was invoked, in order
    kwVisited,        \* rows the keyword loop visited, in order
    kwScanned,        \* per row, the keyword positions the inner loop examined
    fuzzy_df,         \* eval_df as line 671 left it
    \* ---- FAQ Corrector helpers applied to one cell
    cellIn,           \* the cell given to clean_faq_levels
    cellOut,          \* what it returned
    cellRow,          \* the row process_table derives from it
    cellPc,
    \* ---- FAQ Corrector: inputs of one script execution
    df_c0,            \* File C as pd.read_excel gives it: [columns, rows]
    df_d0,            \* File D
    \* ---- FAQ Corrector: state of the execution
    kpc,              \* position of the script
    faq_col_c,        \* select box of line 408
    faq_col_d,        \* select box of line 419
    df_c,             \* df_c after line 431
    df_d,             \* df_d after line 432
    c_processed,      \* local of line 434
    d_processed,      \* local of line 435
    c_grouped,        \* local of line 437
    d_grouped,        \* local of line 438
    kerror,           \* what st.error of line 450 showed
    corrector_state,  \* st.session_state: c_processed, d_processed, c_grouped, d_grouped
    \* ---- st.session_state as the execution found it (not read by the program)
    session0

mvars == <<dictColsRaw, dictRows, evalCols, evalRaw, metric, threshold, use_keywords,
           keyword_text, pc, dictCols, error, faq_col, keyword_mappings, eval_df,
           faq_dict, choices, mapped, kwRows, kwPos, keyword_mapped, mapped_df,
           fuzzyCalls, scorerCalls, kwVisited, kwScanned, fuzzy_df>>

cvars == <<cellIn, cellOut, cellRow, cellPc>>

kvars == <<df_c0, df_d0, kpc, faq_col_c, faq_col_d, df_c, df_d, c_processed,
           d_processed, c_grouped, d_grouped, kerror, corrector_state, session0>>

vars == <<mvars, cvars, kvars>>

(***************************************************************************)
(* Values                                                                  *)
(***************************************************************************)
Str(s) == [kind |-> "str", chars |-> s]

Num(s) == [kind |-> "num", chars |-> s]

Null == [kind |-> "null", chars |-> <<>>]

\* pd.isna on a scalar
isna(v) == v.kind = "null"

\* str(v) for a value that is not null
str(v) == v.chars

(***************************************************************************)
(* Characters                                                              *)
(***************************************************************************)
AsciiLower ==
    {"a", "b", "c", "d", "e", "f", "i", "l", "m", "n", "o", "p", "q", "s", "t", "u", "z"}

AsciiUpper == {"A", "B", "F", "N", "U"}

Digits == {"0", "1", "2", "7"}

\* "FWA" stands for U+FF21, FULLWIDTH LATIN CAPITAL LETTER A
FullWidth == {"FWA"}

WhiteSpace == {" ", "\t", "\n", "\r"}

LineBreaks == {"\r", "\n", "\t"}

\* the characters \w of Python's re matches
WordChars == AsciiLower \cup AsciiUpper \cup Digits \cup FullWidth \cup {"_"}

\* unicodedata.normalize("NFKC", .) on one character
nfkc(c) == IF c = "FWA" THEN "A" ELSE c

\* str.lower() on one character
lowerChar(c) ==
    CASE c = "A" -> "a"
      [] c = "B" -> "b"
      [] c = "F" -> "f"
      [] c = "N" -> "n"
      [] c = "U" -> "u"
      [] OTHER -> c

(***************************************************************************)
(* String operations of Python and re, on sequences of characters          *)
(***************************************************************************)
MapChars(s, f(_)) == [i \in 1..Len(s) |-> f(s[i])]

RECURSIVE RemoveChars(_, _)
\* re.sub of one character class by '' / str.replace(c, '')
RemoveChars(s, class) ==
    IF s = <<>> THEN <<>>
    ELSE IF Head(s) \in class THEN RemoveChars(Tail(s), class)
         ELSE <<Head(s)>> \o RemoveChars(Tail(s), class)

RECURSIVE CollapseRuns(_, _, _)
\* re.sub(r'[class]+', r, s): every maximal run of class becomes r
CollapseRuns(s, class, r) ==
    IF s = <<>> THEN <<>>
    ELSE IF Head(s) \in class
         THEN IF Len(s) > 1 /\ s[2] \in class
              THEN CollapseRuns(Tail(s), class, r)
              ELSE <<r>> \o CollapseRuns(Tail(s), class, r)
         ELSE <<Head(s)>> \o CollapseRuns(Tail(s), class, r)

RECURSIVE KeepChars(_, _)
\* re.sub(r'[^class]', '', s)
KeepChars(s, class) ==
    IF s = <<>> THEN <<>>
    ELSE IF Head(s) \in class THEN <<Head(s)>> \o KeepChars(Tail(s), class)
         ELSE KeepChars(Tail(s), class)

RECURSIVE LStrip(_)
LStrip(s) == IF s # <<>> /\ Head(s) \in WhiteSpace THEN LStrip(Tail(s)) ELSE s

RECURSIVE RStrip(_)
RStrip(s) ==
    IF s # <<>> /\ s[Len(s)] \in WhiteSpace THEN RStrip(SubSeq(s, 1, Len(s) - 1)) ELSE s

\* str.strip()
Strip(s) == RStrip(LStrip(s))

RECURSIVE ReplaceChar(_, _, _)
\* str.replace(c, r) for a one-character c and a string r
ReplaceChar(s, c, r) ==
    IF s = <<>> THEN <<>>
    ELSE (IF Head(s) = c THEN r ELSE <<Head(s)>>) \o ReplaceChar(Tail(s), c, r)

RECURSIVE SplitOn(_, _, _)
\* re.split(sep, s): cur is the part being read
SplitOn(s, sep, cur) ==
    IF s = <<>> THEN <<cur>>
    ELSE IF Head(s) = sep THEN <<cur>> \o SplitOn(Tail(s), sep, <<>>)
         ELSE SplitOn(Tail(s), sep, Append(cur, Head(s)))

\* Python's  sub in s  for strings
Contains(sub, s) ==
    \E i \in 0..(Len(s) - Len(sub)) : SubSeq(s, i + 1, i + Len(sub)) = sub

\* SelectNonEmpty without the filter  if p.strip()
select_all_parts(parts) == [i \in 1..Len(parts) |-> Strip(parts[i])]

RECURSIVE SelectNonEmpty(_)
SelectNonEmpty(parts) ==
    IF parts = <<>> THEN <<>>
    ELSE IF Strip(Head(parts)) # <<>>
         THEN <<Strip(Head(parts))>> \o SelectNonEmpty(Tail(parts))
         ELSE SelectNonEmpty(Tail(parts))

(***************************************************************************)
(* FAQ Corrector helpers                                                   *)
(***************************************************************************)
RECURSIVE CamelSplit(_)
\* re.sub(r'(?<=[a-z])(?=[A-Z])', ' | ', text)
CamelSplit(s) ==
    IF Len(s) < 2 THEN s
    ELSE IF s[1] \in AsciiLower /\ s[2] \in AsciiUpper
         THEN <<s[1], " ", "|", " ">> \o CamelSplit(Tail(s))
         ELSE <<s[1]>> \o CamelSplit(Tail(s))

\* Truncate5 without the slice
no_truncate(parts) == parts

\* parts = parts[:5]
Truncate5(parts) == SubSeq(parts, 1, IF Len(parts) < 5 THEN Len(parts) ELSE 5)

\* while len(parts) < 5: parts.append(None)
PadNone5(parts) ==
    [i \in 1..(IF Len(parts) < 5 THEN 5 ELSE Len(parts)) |->
        IF i <= Len(parts) THEN parts[i] ELSE Null]

clean_faq_levels(text) ==
    IF isna(text) THEN [i \in 1..5 |-> Null]
    ELSE LET t1 == Strip(RemoveChars(str(text), {"\""}))
             t2 == ReplaceChar(t1, "\n", <<"|">>)
             t3 == CamelSplit(t2)
             t4 == CollapseRuns(t3, WhiteSpace, " ")
             parts == SelectNonEmpty(SplitOn(t4, "|", <<>>))
             kept == Truncate5(parts)
         IN  PadNone5([i \in 1..Len(kept) |-> Str(kept[i])])

\* pd.notna on a scalar
notna(v) == ~isna(v)

\* str(x) for any value; the absent levels are None (line 197)
NoneStr == <<"N", "o", "n", "e">>

pystr(v) == IF isna(v) THEN NoneStr ELSE v.chars

\* generate_question preferring Level_4
generate_question_level4_first(levels) ==
    IF notna(levels[4]) THEN levels[4]
    ELSE IF notna(levels[5]) THEN levels[5]
    ELSE Null

\* lines 201-207, on the Level_1..Level_5 of the row
generate_question(levels) ==
    IF notna(levels[5]) THEN levels[5]
    ELSE IF notna(levels[4]) THEN levels[4]
    ELSE Null

Punctuation == {"?", ".", "!", ",", ";", ":"}

RECURSIVE DropSpaceBeforePunct(_)
\* re.sub(r'\s+([?.!,;:])', r'\1', text)
DropSpaceBeforePunct(s) ==
    IF s = <<>> THEN <<>>
    ELSE IF Head(s) \in WhiteSpace /\ LStrip(s) # <<>> /\ Head(LStrip(s)) \in Punctuation
         THEN DropSpaceBeforePunct(LStrip(s))
         ELSE <<Head(s)>> \o DropSpaceBeforePunct(Tail(s))

\* lines 209-220
soft_clean_text(text) ==
    IF isna(text) THEN <<>>
    ELSE LET t1 == MapChars(str(text), nfkc)
             t2 == CollapseRuns(t1, LineBreaks, " ")
             t3 == CollapseRuns(t2, WhiteSpace, " ")
             t4 == DropSpaceBeforePunct(t3)
         IN  Strip(t4)

RECURSIVE Join(_, _)
\* sep.join(parts)
Join(parts, sep) ==
    IF parts = <<>> THEN <<>>
    ELSE IF Len(parts) = 1 THEN parts[1]
         ELSE parts[1] \o sep \o Join(Tail(parts), sep)

\* key_filter that lets the levels None through
key_filter_keeps_none(x) == Strip(pystr(x)) # <<>>

\* line 225: if str(x).strip() != '' and str(x) != 'None'
key_filter(x) == Strip(pystr(x)) # <<>> /\ pystr(x) # NoneStr

\* lines 222-228, on the Level_1..Level_5 of one row
build_faq_key(levels) ==
    LET kept == SelectSeq(levels, key_filter)
    IN  Join([i \in 1..Len(kept) |-> soft_clean_text(kept[i])], <<" ">>)

\* line 258: ' - '.join([str(i) for i in x if pd.notna(i)])
faq_description(levels) ==
    LET kept == SelectSeq(<<levels[4], levels[5]>>, notna)
    IN  Join([i \in 1..Len(kept) |-> pystr(kept[i])], <<" ", "-", " ">>)

\* lines 252-263: the columns process_table adds to the row of one FAQ cell
process_row(cell) ==
    LET levels == clean_faq_levels(cell)
    IN  [levels |-> levels,
         category |-> levels[3],
         description |-> faq_description(levels),
         question |-> generate_question(levels),
         key |-> build_faq_key(levels)]

\* str.startswith
StartsWith(s, prefix) == Len(s) >= Len(prefix) /\ SubSeq(s, 1, Len(prefix)) = prefix

Unnamed == <<"U", "n", "n", "a", "m", "e", "d">>

FailSuffix == <<"_", "f", "a", "i", "l">>

PassSuffix == <<"_", "p", "a", "s", "s">>

\* line 238: i + 1 < len(cols) and str(cols[i+1]).startswith("Unnamed"), i from 1
is_pair(cols, i) == i + 1 <= Len(cols) /\ StartsWith(cols[i + 1], Unnamed)

\* pair_names without .lower()
pair_names_no_lower(col) == <<Strip(col) \o FailSuffix, Strip(col) \o PassSuffix>>

\* lines 239-241
pair_names(col) ==
    LET base == Strip(MapChars(col, lowerChar))
    IN  <<base \o FailSuffix, base \o PassSuffix>>

RECURSIVE rename_from(_, _)
\* lines 236-245: the loop from position i
rename_from(cols, i) ==
    IF i > Len(cols) THEN <<>>
    ELSE LET col == Strip(cols[i])
         IN  IF is_pair(cols, i)
             THEN pair_names(col) \o rename_from(cols, i + 2)
             ELSE <<col>> \o rename_from(cols, i + 1)

\* lines 230-248, on df.columns
rename_fail_pass_columns(cols) == rename_from(cols, 1)

(***************************************************************************)
(* FAQ Mapper helpers                                                      *)
(***************************************************************************)
soft_clean_text_mapper(text) ==
    IF isna(text) THEN <<>>
    ELSE LET t1 == MapChars(str(text), nfkc)
             t2 == MapChars(t1, lowerChar)
             t3 == CollapseRuns(t2, LineBreaks, " ")
             t4 == CollapseRuns(t3, WhiteSpace, " ")
             t5 == KeepChars(t4, WordChars \cup WhiteSpace)
         IN  Strip(t5)

\* process.extractOne(query, choices) of thefuzz with the default scorer: None
\* for no choices, else the first choice of maximal score with its score
extractOne(query, chs) ==
    IF chs = <<>> THEN [none |-> TRUE, match |-> <<>>, score |-> 0]
    ELSE LET sc(k) == metric[<<query, chs[k]>>]
             best == CHOOSE k \in 1..Len(chs) :
                        /\ \A j \in 1..Len(chs) : sc(j) <= sc(k)
                        /\ \A j \in 1..(k - 1) : sc(j) < sc(k)
         IN  [none |-> FALSE, match |-> chs[best], score |-> sc(best)]

\* fuzzy_map_faq returning 0 for a score below the threshold
fuzzy_map_faq_drops_score(raw_text, chs, thr) ==
    IF raw_text = <<>>
    THEN [raised |-> FALSE, scored |-> FALSE, match |-> Null, score |-> 0]
    ELSE LET r == extractOne(raw_text, chs)
         IN  IF r.none
             THEN [raised |-> TRUE, scored |-> TRUE, match |-> Null, score |-> 0]
             ELSE IF r.score >= thr
                  THEN [raised |-> FALSE, scored |-> TRUE,
                        match |-> Str(r.match), score |-> r.score]
                  ELSE [raised |-> FALSE, scored |-> TRUE, match |-> Null, score |-> 0]

\* fuzzy_map_faq without the guard of lines 300-301: the scorer is called on
\* the empty text too, and scores it 0 against every choice
fuzzy_map_faq_no_guard(raw_text, chs, thr) ==
    LET r == IF raw_text = <<>>
             THEN [none |-> chs = <<>>, match |-> <<>>, score |-> 0]
             ELSE extractOne(raw_text, chs)
    IN  IF r.none
        THEN [raised |-> TRUE, scored |-> TRUE, match |-> Null, score |-> 0]
        ELSE IF r.score >= thr
             THEN [raised |-> FALSE, scored |-> TRUE,
                   match |-> Str(r.match), score |-> r.score]
             ELSE [raised |-> FALSE, scored |-> TRUE, match |-> Null, score |-> r.score]

\* fuzzy_map_faq: raised is the TypeError of unpacking None at line 303,
\* scored says whether process.extractOne was called
fuzzy_map_faq(raw_text, chs, thr) ==
    IF raw_text = <<>>
    THEN [raised |-> FALSE, scored |-> FALSE, match |-> Null, score |-> 0]
    ELSE LET r == extractOne(raw_text, chs)
         IN  IF r.none
             THEN [raised |-> TRUE, scored |-> TRUE, match |-> Null, score |-> 0]
             ELSE IF r.score >= thr
                  THEN [raised |-> FALSE, scored |-> TRUE,
                        match |-> Str(r.match), score |-> r.score]
                  ELSE [raised |-> FALSE, scored |-> TRUE,
                        match |-> Null, score |-> r.score]

\* the lambda of lines 669-671
status_of_score(x, thr) == IF x >= thr THEN "Mapped (Fuzzy)" ELSE "Unmapped"

\* drop_duplicates with keep='last'
drop_duplicates_keep_last(rows, seen) ==
    LET kept == SelectSeq([k \in 1..Len(rows) |-> [row |-> rows[k], at |-> k]],
                          LAMBDA e : /\ e.row.faq_clean \notin seen
                                     /\ \A j \in (e.at + 1)..Len(rows) :
                                           rows[j].faq_clean # e.row.faq_clean)
    IN  [k \in 1..Len(kept) |-> kept[k].row]

RECURSIVE drop_duplicates(_, _)
\* faq_dict.drop_duplicates(subset=['faq_clean'], keep='first')
drop_duplicates(rows, seen) ==
    IF rows = <<>> THEN <<>>
    ELSE IF Head(rows).faq_clean \in seen
         THEN drop_duplicates(Tail(rows), seen)
         ELSE <<Head(rows)>> \o drop_duplicates(Tail(rows), seen \cup {Head(rows).faq_clean})

\* the rows of the dictionary whose faq_clean equals key: faq_dict[faq_dict['faq_clean'] == key]
dict_rows_with(dict, key) == SelectSeq(dict, LAMBDA d : d.faq_clean = key)

NoLevels == [j \in 1..6 |-> Null]

RECURSIVE merge_levels(_, _)
\* eval_df.merge(faq_dict[[faq_clean, level_1..level_6]], left_on='faq_mapped',
\* right_on='faq_clean', how='left'): one output row per matching dictionary
\* row, one row of NaN levels when there is none
merge_levels(rows, dict) ==
    IF rows = <<>> THEN <<>>
    ELSE LET r == Head(rows)
             hits == IF isna(r.faq_mapped) THEN <<>>
                     ELSE dict_rows_with(dict, str(r.faq_mapped))
             out == IF hits = <<>> THEN <<[r EXCEPT !.levels = NoLevels]>>
                    ELSE [k \in 1..Len(hits) |-> [r EXCEPT !.levels = hits[k].levels]]
         IN  out \o merge_levels(Tail(rows), dict)

RECURSIVE parse_keyword_lines(_, _)
\* lines 626-631: a Python dict filled line by line; a repeated key keeps its
\* first position and takes the last value
parse_keyword_lines(lines, acc) ==
    IF lines = <<>> THEN acc
    ELSE LET ln == Head(lines)
             k == Strip(ln[1])
             v == Strip(ln[2])
             at == {i \in 1..Len(acc) : acc[i][1] = k}
             nxt == IF Len(ln) # 2 THEN acc
                    ELSE IF at = {} THEN Append(acc, <<k, v>>)
                    ELSE [i \in 1..Len(acc) |-> IF i \in at THEN <<k, v>> ELSE acc[i]]
         IN  parse_keyword_lines(Tail(lines), nxt)

(***************************************************************************)
(* Column names.  A name is [base, caps, pad]: base is the name lowercased *)
(* and trimmed, caps says that it is written in capitals, pad that it has  *)
(* surrounding blanks, so that c.lower() and c.strip() are computed.       *)
(***************************************************************************)
Col(b, caps, pad) == [base |-> b, caps |-> caps, pad |-> pad]

Plain(b) == Col(b, FALSE, FALSE)

colLower(c) == [c EXCEPT !.caps = FALSE]

colStrip(c) == [c EXCEPT !.pad = FALSE]

\* 'faq' in c, for a name as written
hasFaq(c) == ~c.caps /\ c.base \in {"faq", "faq text", "customer faq"}

\* line 576
required_cols ==
    <<Plain("level_1"), Plain("level_2"), Plain("level_3"), Plain("level_4"),
      Plain("level_5"), Plain("level_6"), Plain("full_faq")>>

SeqRange(q) == {q[i] : i \in 1..Len(q)}

\* line 565
normalize_columns(cols) == [i \in 1..Len(cols) |-> colStrip(colLower(cols[i]))]

\* missing_cols reporting the first missing column only
missing_cols_first(cols) ==
    LET all == SelectSeq(required_cols, LAMBDA c : c \notin SeqRange(cols))
    IN  IF all = <<>> THEN <<>> ELSE <<all[1]>>

\* line 577
missing_cols(cols) == SelectSeq(required_cols, LAMBDA c : c \notin SeqRange(cols))

\* line 584
detect_faq_cols(cols) == SelectSeq(cols, LAMBDA c : hasFaq(colLower(c)))

(***************************************************************************)
(* Inputs of the FAQ Mapper                                                *)
(***************************************************************************)
\* largest number of evaluation rows explored
MaxRows == 2

\* st.slider(min_value=50, max_value=100, value=80)
SliderMin == 50

SliderMax == 100

SliderDefault == 80

\* line 694
KeywordScore == 100

\* slider positions explored: both ends and the default
Thresholds == {SliderMin, SliderDefault, SliderMax}

\* scores the scorer may return (it returns integers of 0..100)
ScoreVals == {0, SliderMin, SliderMax}

SeqsUpTo(S, n) == UNION {[1..k -> S] : k \in 0..n}

Lv(c) == [j \in 1..6 |-> IF j = 6 THEN Null ELSE Str(<<c, "_", "7">>)]

\* cells of the FAQ column: absent, only punctuation, mixed case with a tab, padded
EvalCells ==
    {Null, Str(<<"?">>), Str(<<"A", "\t", " ", "b", "?">>), Str(<<" ", "z">>)}

\* dictionaries: none, one with an empty full_faq, one with a duplicate after cleaning
NoDictionary == <<>>

DictionaryOne ==
    <<[full_faq |-> Str(<<"A", " ", "b">>), levels |-> Lv("a")],
      [full_faq |-> Null, levels |-> Lv("b")]>>

DictionaryDup ==
    <<[full_faq |-> Str(<<"a">>), levels |-> Lv("c")],
      [full_faq |-> Str(<<"FWA", "?">>), levels |-> Lv("d")],
      [full_faq |-> Str(<<"b", " ", "c">>), levels |-> Lv("e")]>>

Dictionaries == {NoDictionary, DictionaryOne, DictionaryDup}

\* keyword text areas; a line without exactly one arrow has one part
NoKeywords == <<>>

KeywordsA ==
    <<<<<<"z">>, <<"a">>>>,
      <<<<"n", "o">>>>,
      <<<<" ", "a">>, <<"z", " ", "z">>>>,
      <<<<"b">>, <<"A", "?">>>>,
      <<<<"a", " ", "b">>, <<"B", " ", " ", "c", "?">>>>>>

KeywordsB ==
    <<<<<<>>, <<"?">>>>,
      <<<<"b">>, <<"A", " ", "b">>>>,
      <<<<>>, <<"z", "z">>>>>>

KeywordConfigs ==
    {<<FALSE, KeywordsA>>, <<TRUE, NoKeywords>>, <<TRUE, KeywordsA>>, <<TRUE, KeywordsB>>}

HeaderOk == required_cols

HeaderMessy ==
    <<Col("level_1", TRUE, TRUE), Plain("level_2"), Plain("level_3"), Plain("level_4"),
      Plain("level_5"), Col("level_6", FALSE, TRUE), Col("full_faq", TRUE, FALSE),
      Plain("notes")>>

HeaderNoLevel3 ==
    <<Plain("level_1"), Plain("level_2"), Plain("level_4"), Plain("level_5"),
      Plain("level_6"), Plain("full_faq")>>

HeaderNoTwo ==
    <<Plain("level_1"), Col("level_3", TRUE, FALSE), Plain("level_4"), Plain("level_5"),
      Plain("level_6"), Plain("full faq")>>

Headers == {HeaderOk, HeaderMessy, HeaderNoLevel3, HeaderNoTwo}

EvalHeaderOk == <<Plain("id"), Plain("faq")>>

EvalHeaderTwo == <<Col("faq text", TRUE, FALSE), Plain("customer faq")>>

EvalHeaderNone == <<Plain("id"), Plain("comment")>>

EvalHeaders == {EvalHeaderOk, EvalHeaderTwo, EvalHeaderNone}

NoColumn == "(no column)"

NoError == [kind |-> "none", cols |-> <<>>]

NotStored == [stored |-> FALSE, df |-> <<>>]

\* the rows of eval_df as pd.read_excel gives them, before any column is added
uploaded_eval(cells) ==
    [i \in 1..Len(cells) |->
        [raw |-> cells[i], faq_clean |-> <<>>, faq_mapped |-> Null, mapping_score |-> 0,
         levels |-> NoLevels, mapping_status |-> NoColumn]]

uploaded_dict(rows) ==
    [k \in 1..Len(rows) |->
        [full_faq |-> rows[k].full_faq, levels |-> rows[k].levels, faq_clean |-> <<>>]]

CleanSet(cells) == {soft_clean_text_mapper(cells[i]) : i \in 1..Len(cells)}

MetricDomain(cells, rows) ==
    (CleanSet(cells) \ {<<>>}) \X CleanSet([k \in 1..Len(rows) |-> rows[k].full_faq])

(***************************************************************************)
(* Inputs of clean_faq_levels: a cell is null, a number, or a string made  *)
(* of up to MaxTokens tokens                                               *)
(***************************************************************************)
MaxTokens == 5

Tokens == {<<"a", "B">>, <<"|">>, <<"\n">>, <<" ">>, <<"\"">>, <<"b">>}

RECURSIVE Concat(_)
Concat(ts) == IF ts = <<>> THEN <<>> ELSE Head(ts) \o Concat(Tail(ts))

StrNull == Str(<<"n", "u", "l", "l">>)

StrUndefined == Str(<<"u", "n", "d", "e", "f", "i", "n", "e", "d">>)

\* cells with the literal level None, a space before punctuation, a tab
KeyCells ==
    {Str(NoneStr),
     Str(<<"a", "|", "N", "o", "n", "e", "|", "b">>),
     Str(<<"b", "N", "o", "n", "e">>),
     Str(<<"N", "o", "n", "e", " ", "b", "|", "n", "o", "n", "e">>),
     Str(<<"a", " ", "?", "|", "\"", "b", "\t", " ", ".", "B">>),
     Str(<<"FWA", "|", "b", "|", "a", "|", "B">>)}

CellInputs ==
    {Null, Num(<<"7">>), Num(<<"0">>), StrNull, StrUndefined} \cup KeyCells
        \cup {Str(Concat(ts)) : ts \in SeqsUpTo(Tokens, MaxTokens)}

(***************************************************************************)
(* FAQ Corrector tables.  A table is [columns, rows]: the column names and *)
(* for each row its cells in column order.  A processed table keeps, per   *)
(* row, the cells and the columns process_table derived.                   *)
(***************************************************************************)
DigitVal(c) ==
    CASE c = "0" -> 0
      [] c = "1" -> 1
      [] c = "2" -> 2
      [] c = "7" -> 7

RECURSIVE IntPart(_, _)
\* the value of a number from its str(): the digits up to the decimal point
IntPart(chars, acc) ==
    IF chars = <<>> \/ Head(chars) = "." THEN acc
    ELSE IntPart(Tail(chars), 10 * acc + DigitVal(Head(chars)))

\* what a cell adds to .sum(): NaN is skipped
addend(v) == IF isna(v) THEN 0 ELSE IntPart(v.chars, 0)

\* select_dtypes(include="number"): a column read as int64 or float64 holds
\* numbers and blanks only
is_numeric_col(rows, j) == \A r \in 1..Len(rows) : rows[r].cells[j].kind \in {"num", "null"}

numeric_cols(df) ==
    SelectSeq([j \in 1..Len(df.columns) |-> j], LAMBDA j : is_numeric_col(df.rows, j))

NoTable == [raised |-> FALSE, columns |-> <<>>, rows |-> <<>>]

KeyError == [raised |-> TRUE, columns |-> <<>>, rows |-> <<>>]

\* df[faq_column] is one column when exactly one name equals faq_column
column_index(cols, name) == {j \in 1..Len(cols) : cols[j] = name}

\* lines 250-265; df[faq_column] raises when no column has that name, and the
\* lambda of line 253 raises on the frame that a repeated name selects
process_table(df, faq_column) ==
    LET js == column_index(df.columns, faq_column)
    IN  IF Cardinality(js) # 1 THEN KeyError
        ELSE LET j == CHOOSE x \in js : TRUE
             IN  [raised |-> FALSE,
                  columns |-> df.columns,
                  rows |-> [r \in 1..Len(df.rows) |->
                               [cells |-> df.rows[r],
                                derived |-> process_row(df.rows[r][j])]]]

\* line 269: the values of group_cols in one row
group_of(row) == <<Str(row.derived.key)>> \o row.derived.levels

\* groupby with the default dropna=True: rows with a missing key are left out
groupby_drops_na(g) == \A i \in 1..Len(g) : notna(g[i])

\* line 275, dropna=False: a row whose key holds a missing value is grouped too
groupby_keeps(g) == TRUE

RECURSIVE first_seen(_, _)
\* the distinct values of q, each at its first occurrence
first_seen(q, seen) ==
    IF q = <<>> THEN <<>>
    ELSE IF Head(q) \in seen THEN first_seen(Tail(q), seen)
         ELSE <<Head(q)>> \o first_seen(Tail(q), seen \cup {Head(q)})

RECURSIVE column_sum(_, _)
\* .sum() of column j over rows
column_sum(rows, j) ==
    IF rows = <<>> THEN 0 ELSE addend(Head(rows).cells[j]) + column_sum(Tail(rows), j)

\* lines 267-281; the order of the grouped rows is not modelled (first occurrence)
group_table(df) ==
    LET num == numeric_cols(df)
        kept == SelectSeq(df.rows, LAMBDA r : groupby_keeps(group_of(r)))
        groups == first_seen([r \in 1..Len(kept) |-> group_of(kept[r])], {})
    IN  IF num # <<>>
        THEN [grouped |-> TRUE,
              columns |-> [k \in 1..Len(num) |-> df.columns[num[k]]],
              rows |-> [g \in 1..Len(groups) |->
                  [group |-> groups[g],
                   sums |-> [k \in 1..Len(num) |->
                       column_sum(SelectSeq(kept, LAMBDA r : group_of(r) = groups[g]),
                                  num[k])]]]]
        ELSE [grouped |-> FALSE, columns |-> df.columns, rows |-> df.rows]

\* lines 405-406: the column the select box starts on
StrFaq == <<"f", "a", "q">>

StrCount == <<"c", "o", "u", "n", "t">>

possible_cols(cols) ==
    SelectSeq(cols, LAMBDA c : Contains(StrFaq, MapChars(c, lowerChar))
                               \/ Contains(StrCount, MapChars(c, lowerChar)))

default_col(cols) == IF possible_cols(cols) # <<>> THEN possible_cols(cols)[1] ELSE cols[1]

(***************************************************************************)
(* Inputs of the FAQ Corrector                                             *)
(***************************************************************************)
\* largest number of rows of File C explored
MaxRecords == 2

NameFaq == StrFaq

NamePadded == <<" ", "F", "a", "q", " ">>

NameN == <<"n">>

NameA == <<"A">>

NameLowerA == <<"a">>

Unnamed0 == Unnamed \o <<":", " ", "0">>

Unnamed1 == Unnamed \o <<":", " ", "1">>

Unnamed2 == Unnamed \o <<":", " ", "2">>

\* headers of File C: plain, FAQ column followed by an unnamed one, padded FAQ
\* name, a measure pair before and after the FAQ column, two unnamed columns in
\* a row, a lone unnamed column
CorrectorHeaders ==
    {<<NameFaq, NameN>>,
     <<NameFaq, Unnamed1>>,
     <<NamePadded, NameN>>,
     <<NameA, Unnamed1, NameFaq>>,
     <<NameFaq, NameA, Unnamed2>>,
     <<NameLowerA, Unnamed1, Unnamed2>>,
     <<Unnamed0>>}

Rc1Service == <<"r", "c", "1", "_", "s", "e", "r", "v", "i", "c", "e">>

\* headers of File D: plain, and a measure pair only
HeadersD == {<<NameFaq, NameN>>, <<Rc1Service, Unnamed1>>}

\* FAQ cells: blank, one level, the same level quoted, five levels
CorrectorTexts ==
    {Null, Str(<<"a">>), Str(<<"\"", "a", "\"">>),
     Str(<<"a", "|", "b", "|", "a", "|", "b", "|", "B">>)}

\* measure cells: blank or 7
CorrectorNumbers == {Null, Num(<<"7">>)}

\* a number of a float64 column prints with its decimal point
as_float(v) == IF isna(v) THEN v ELSE Num(v.chars \o <<".", "0">>)

\* the position of the text column of an uploaded table
TextPos(h) == CHOOSE j \in 1..Len(h) : h[j] = default_col(h)

\* the table pd.read_excel gives: the texts in the text column, the numbers in
\* every other column, as float64 when the column has a blank
MakeTable(h, recs) ==
    LET blank == \E r \in 1..Len(recs) : isna(recs[r][2])
    IN  [columns |-> h,
         rows |-> [r \in 1..Len(recs) |->
                      [j \in 1..Len(h) |->
                          IF j = TextPos(h) THEN recs[r][1]
                          ELSE IF blank THEN as_float(recs[r][2]) ELSE recs[r][2]]]]

RecordsC == SeqsUpTo(CorrectorTexts \X CorrectorNumbers, MaxRecords) \ {<<>>}

RecordsD == <<<<Str(<<"a">>), Num(<<"7">>)>>>>

NoResults ==
    [stored |-> FALSE, c_processed |-> NoTable, d_processed |-> NoTable,
     c_grouped |-> NoTable, d_grouped |-> NoTable]

\* lines 441-444
store_results(cp, dp, cg, dg) ==
    [stored |-> TRUE, c_processed |-> cp, d_processed |-> dp,
     c_grouped |-> cg, d_grouped |-> dg]

\* what an earlier run of the same session stored
PreviousResults ==
    LET t == MakeTable(<<NameFaq, NameN>>, <<<<Str(<<"b">>), Num(<<"0">>)>>>>)
        p == process_table([t EXCEPT !.columns = rename_fail_pass_columns(@)], NameFaq)
    IN  store_results(p, p, group_table(p), group_table(p))

CorrectorFresh ==
    /\ faq_col_c = <<>>
    /\ faq_col_d = <<>>
    /\ df_c = df_c0
    /\ df_d = df_d0
    /\ c_processed = NoTable
    /\ d_processed = NoTable
    /\ c_grouped = NoTable
    /\ d_grouped = NoTable
    /\ kerror = NoError

CorrectorInputs ==
    /\ \E h \in CorrectorHeaders, recs \in RecordsC : df_c0 = MakeTable(h, recs)
    /\ \E h \in HeadersD : df_d0 = MakeTable(h, RecordsD)
    /\ \E prev \in {NoResults, PreviousResults} :
          /\ session0 = [corrector |-> prev, mapped_df |-> NotStored]
          /\ corrector_state = prev

CorrectorOff ==
    /\ df_c0 = NoTable
    /\ df_d0 = NoTable
    /\ session0 = [corrector |-> NoResults, mapped_df |-> NotStored]
    /\ corrector_state = NoResults
    /\ kpc = "off"
    /\ CorrectorFresh

(***************************************************************************)
(* Initial states                                                          *)
(***************************************************************************)
MapperLocals ==
    /\ dictCols = <<>>
    /\ error = NoError
    /\ faq_col = Plain("")
    /\ keyword_mappings = <<>>
    /\ eval_df = uploaded_eval(evalRaw)
    /\ faq_dict = uploaded_dict(dictRows)
    /\ choices = <<>>
    /\ mapped = <<>>
    /\ kwRows = <<>>
    /\ kwPos = 1
    /\ keyword_mapped = 0
    /\ fuzzyCalls = <<>>
    /\ scorerCalls = <<>>
    /\ kwVisited = <<>>
    /\ kwScanned = <<>>
    /\ fuzzy_df = <<>>

\* a first execution: nothing is stored in the session yet
MapperFresh == MapperLocals /\ mapped_df = NotStored

\* the files and widget values of one execution of the script
MapperInputs ==
    /\ \E h \in Headers, eh \in EvalHeaders, d \in Dictionaries, kc \in KeywordConfigs :
          /\ \/ h = HeaderOk /\ eh = EvalHeaderOk
             \/ d = DictionaryOne /\ kc = <<TRUE, KeywordsB>>
          /\ dictColsRaw = h
          /\ evalCols = eh
          /\ dictRows = d
          /\ use_keywords = kc[1]
          /\ keyword_text = kc[2]
    /\ evalRaw \in SeqsUpTo(EvalCells, MaxRows)
    /\ \/ dictColsRaw = HeaderOk /\ evalCols = EvalHeaderOk
       \/ evalRaw = <<Str(<<"A", "\t", " ", "b", "?">>)>>
    /\ threshold \in Thresholds
    /\ metric \in [MetricDomain(evalRaw, dictRows) -> ScoreVals]

MapperOff ==
    /\ dictColsRaw = <<>>
    /\ evalCols = <<>>
    /\ dictRows = <<>>
    /\ use_keywords = FALSE
    /\ keyword_text = <<>>
    /\ evalRaw = <<>>
    /\ threshold = SliderDefault
    /\ metric = <<>>
    /\ pc = "off"
    /\ MapperFresh

NoRow == [levels |-> <<>>]

CellOff == cellIn = Null /\ cellOut = <<>> /\ cellRow = NoRow /\ cellPc = "off"

Init == MapperInputs /\ pc = "uploaded" /\ MapperFresh /\ CellOff /\ CorrectorOff

(***************************************************************************)
(* The FAQ Mapper script, lines 559-711                                    *)
(***************************************************************************)
\* lines 564-581: normalize the dictionary's header, stop if a column is missing
ValidateDictionary ==
    /\ pc = "uploaded"
    /\ dictCols' = normalize_columns(dictColsRaw)
    /\ LET missing == missing_cols(dictCols')
       IN  IF missing # <<>>
           THEN /\ error' = [kind |-> "FAQ Dictionary missing columns", cols |-> missing]
                /\ pc' = "stopped"
           ELSE /\ error' = error
                /\ pc' = "detect"
    /\ UNCHANGED <<dictColsRaw, dictRows, evalCols, evalRaw, metric, threshold,
                   use_keywords, keyword_text, faq_col, keyword_mappings, eval_df,
                   faq_dict, choices, mapped, kwRows, kwPos, keyword_mapped, mapped_df,
                   fuzzyCalls, scorerCalls, kwVisited, kwScanned, fuzzy_df, cvars, kvars>>

\* lines 583-587
DetectFaqColumn ==
    /\ pc = "detect"
    /\ IF detect_faq_cols(evalCols) = <<>>
       THEN /\ error' = [kind |-> "No FAQ column found", cols |-> <<>>]
            /\ pc' = "stopped"
       ELSE /\ error' = error
            /\ pc' = "configure"
    /\ UNCHANGED <<dictColsRaw, dictRows, evalCols, evalRaw, metric, threshold,
                   use_keywords, keyword_text, dictCols, faq_col, keyword_mappings,
                   eval_df, faq_dict, choices, mapped, kwRows, kwPos, keyword_mapped,
                   mapped_df, fuzzyCalls, scorerCalls, kwVisited, kwScanned, fuzzy_df, cvars, kvars>>

\* lines 589-635: the select box and the keyword text area
Configure ==
    /\ pc = "configure"
    /\ faq_col' \in SeqRange(detect_faq_cols(evalCols))
    /\ keyword_mappings' =
          IF use_keywords THEN parse_keyword_lines(keyword_text, <<>>) ELSE <<>>
    /\ pc' = "button"
    /\ UNCHANGED <<dictColsRaw, dictRows, evalCols, evalRaw, metric, threshold,
                   use_keywords, keyword_text, dictCols, error, eval_df, faq_dict,
                   choices, mapped, kwRows, kwPos, keyword_mapped, mapped_df,
                   fuzzyCalls, scorerCalls, kwVisited, kwScanned, fuzzy_df, cvars, kvars>>

\* line 638: the button was not pressed in this execution
NoClick ==
    /\ pc = "button"
    /\ pc' = "idle"
    /\ UNCHANGED <<dictColsRaw, dictRows, evalCols, evalRaw, metric, threshold,
                   use_keywords, keyword_text, dictCols, error, faq_col,
                   keyword_mappings, eval_df, faq_dict, choices, mapped, kwRows, kwPos,
                   keyword_mapped, mapped_df, fuzzyCalls, scorerCalls, kwVisited, kwScanned,
                   fuzzy_df, cvars, kvars>>

\* lines 638-650: clean both texts, deduplicate the dictionary, list the choices
CleanText ==
    /\ pc = "button"
    /\ eval_df' = [i \in 1..Len(eval_df) |->
                      [eval_df[i] EXCEPT !.faq_clean = soft_clean_text_mapper(eval_df[i].raw)]]
    /\ LET cleaned == [k \in 1..Len(faq_dict) |->
                          [faq_dict[k] EXCEPT
                              !.faq_clean = soft_clean_text_mapper(faq_dict[k].full_faq)]]
       IN  faq_dict' = drop_duplicates(cleaned, {})
    /\ choices' = [k \in 1..Len(faq_dict') |-> faq_dict'[k].faq_clean]
    /\ pc' = "fuzzy"
    /\ UNCHANGED <<dictColsRaw, dictRows, evalCols, evalRaw, metric, threshold,
                   use_keywords, keyword_text, dictCols, error, faq_col,
                   keyword_mappings, mapped, kwRows, kwPos, keyword_mapped, mapped_df,
                   fuzzyCalls, scorerCalls, kwVisited, kwScanned, fuzzy_df, cvars, kvars>>

\* line 652: Series.apply calls fuzzy_map_faq on the next row; the TypeError of
\* line 303 ends the run in the handler of line 710
FuzzyRow ==
    /\ pc = "fuzzy"
    /\ Len(mapped) < Len(eval_df)
    /\ LET i == Len(mapped) + 1
           r == fuzzy_map_faq(eval_df[i].faq_clean, choices, threshold)
       IN  /\ fuzzyCalls' = Append(fuzzyCalls, i)
           /\ scorerCalls' = IF r.scored THEN Append(scorerCalls, i) ELSE scorerCalls
           /\ IF r.raised
              THEN /\ pc' = "failed"
                   /\ error' = [kind |-> "exception", cols |-> <<>>]
                   /\ mapped' = mapped
              ELSE /\ pc' = pc
                   /\ error' = error
                   /\ mapped' = Append(mapped, <<r.match, r.score>>)
    /\ UNCHANGED <<dictColsRaw, dictRows, evalCols, evalRaw, metric, threshold,
                   use_keywords, keyword_text, dictCols, faq_col, keyword_mappings,
                   eval_df, faq_dict, choices, kwRows, kwPos, keyword_mapped, mapped_df,
                   kwVisited, kwScanned, fuzzy_df, cvars, kvars>>

\* lines 653-674: faq_mapped and mapping_score, the merge, mapping_status
MergeAndStatus ==
    /\ pc = "fuzzy"
    /\ Len(mapped) = Len(eval_df)
    /\ LET e1 == [i \in 1..Len(eval_df) |->
                     [eval_df[i] EXCEPT !.faq_mapped = mapped[i][1],
                                        !.mapping_score = mapped[i][2]]]
           e2 == merge_levels(e1, faq_dict)
       IN  eval_df' = [i \in 1..Len(e2) |->
                          [e2[i] EXCEPT !.mapping_status =
                              status_of_score(e2[i].mapping_score, threshold)]]
    /\ fuzzy_df' = eval_df'
    /\ pc' = "keyword"
    /\ UNCHANGED <<dictColsRaw, dictRows, evalCols, evalRaw, metric, threshold,
                   use_keywords, keyword_text, dictCols, error, faq_col,
                   keyword_mappings, faq_dict, choices, mapped, kwRows, kwPos,
                   keyword_mapped, mapped_df, fuzzyCalls, scorerCalls, kwVisited, kwScanned, cvars, kvars>>

\* unmapped_index without the mask: every row
all_index(df) == [i \in 1..Len(df) |-> i]

\* eval_df[eval_df['mapping_status'] == 'Unmapped'].index
unmapped_index(df) ==
    LET F[i \in 0..Len(df)] ==
            IF i = 0 THEN <<>>
            ELSE IF df[i].mapping_status = "Unmapped" THEN Append(F[i - 1], i)
                 ELSE F[i - 1]
    IN  F[Len(df)]

\* lines 676-683
KeywordBegin ==
    /\ pc = "keyword"
    /\ IF use_keywords /\ keyword_mappings # <<>>
       THEN /\ kwRows' = unmapped_index(eval_df)
            /\ kwScanned' = [i \in 1..Len(eval_df) |-> <<>>]
            /\ pc' = "kwloop"
       ELSE /\ kwRows' = kwRows
            /\ kwScanned' = kwScanned
            /\ pc' = "save"
    /\ keyword_mapped' = 0
    /\ kwPos' = 1
    /\ UNCHANGED <<dictColsRaw, dictRows, evalCols, evalRaw, metric, threshold,
                   use_keywords, keyword_text, dictCols, error, faq_col,
                   keyword_mappings, eval_df, faq_dict, choices, mapped, mapped_df,
                   fuzzyCalls, scorerCalls, kwVisited, fuzzy_df, cvars, kvars>>

\* keyword_assign without line 694
keyword_assign_keeps_score(row, target_clean, dict_row) ==
    [row EXCEPT !.faq_mapped = Str(target_clean),
                !.mapping_status = "Mapped (Keyword)",
                !.levels = dict_row[1].levels]

\* lines 692-697: the assignments to the row of a keyword hit
keyword_assign(row, target_clean, dict_row) ==
    [row EXCEPT !.faq_mapped = Str(target_clean),
                !.mapping_status = "Mapped (Keyword)",
                !.mapping_score = KeywordScore,
                !.levels = dict_row[1].levels]

\* lines 687 and 691: the keyword is in the text and its target is in the dictionary
keyword_hit(keyword, faq_text, dict_row) ==
    Contains(keyword, faq_text) /\ dict_row # <<>>

\* scan_stops without the break of line 700
scan_never_breaks(hit, k, n) == k = n

\* the inner loop leaves the row at the break of line 700 or after the last keyword
scan_stops(hit, k, n) == hit \/ k = n

\* lines 683-700: one pass of the inner loop, for the row at the head of kwRows
\* and the keyword at kwPos
KeywordStep ==
    /\ pc = "kwloop"
    /\ kwRows # <<>>
    /\ LET idx == Head(kwRows)
           keyword == keyword_mappings[kwPos][1]
           target_faq == keyword_mappings[kwPos][2]
           faq_text == eval_df[idx].faq_clean
           target_clean == soft_clean_text_mapper(Str(target_faq))
           dict_row == dict_rows_with(faq_dict, target_clean)
           hit == keyword_hit(keyword, faq_text, dict_row)
       IN  /\ eval_df' = IF hit
                         THEN [eval_df EXCEPT
                                  ![idx] = keyword_assign(@, target_clean, dict_row)]
                         ELSE eval_df
           /\ keyword_mapped' = IF hit THEN keyword_mapped + 1 ELSE keyword_mapped
           /\ IF scan_stops(hit, kwPos, Len(keyword_mappings))
              THEN kwRows' = Tail(kwRows) /\ kwPos' = 1
              ELSE kwRows' = kwRows /\ kwPos' = kwPos + 1
           /\ kwVisited' = IF kwPos = 1 THEN Append(kwVisited, idx) ELSE kwVisited
           /\ kwScanned' = [kwScanned EXCEPT ![idx] = Append(@, kwPos)]
    /\ UNCHANGED <<dictColsRaw, dictRows, evalCols, evalRaw, metric, threshold,
                   use_keywords, keyword_text, pc, dictCols, error, faq_col,
                   keyword_mappings, faq_dict, choices, mapped, mapped_df, fuzzyCalls, scorerCalls,
                   fuzzy_df, cvars, kvars>>

\* line 702: the outer loop is over
KeywordEnd ==
    /\ pc = "kwloop"
    /\ kwRows = <<>>
    /\ pc' = "save"
    /\ UNCHANGED <<dictColsRaw, dictRows, evalCols, evalRaw, metric, threshold,
                   use_keywords, keyword_text, dictCols, error, faq_col,
                   keyword_mappings, eval_df, faq_dict, choices, mapped, kwRows, kwPos,
                   keyword_mapped, mapped_df, fuzzyCalls, scorerCalls, kwVisited, kwScanned,
                   fuzzy_df, cvars, kvars>>

\* lines 704-708
SaveSession ==
    /\ pc = "save"
    /\ mapped_df' = [stored |-> TRUE, df |-> eval_df]
    /\ pc' = "done"
    /\ UNCHANGED <<dictColsRaw, dictRows, evalCols, evalRaw, metric, threshold,
                   use_keywords, keyword_text, dictCols, error, faq_col,
                   keyword_mappings, eval_df, faq_dict, choices, mapped, kwRows, kwPos,
                   keyword_mapped, fuzzyCalls, scorerCalls, kwVisited, kwScanned, fuzzy_df, cvars, kvars>>

Next ==
    \/ ValidateDictionary
    \/ DetectFaqColumn
    \/ Configure
    \/ NoClick
    \/ CleanText
    \/ FuzzyRow
    \/ MergeAndStatus
    \/ KeywordBegin
    \/ KeywordStep
    \/ KeywordEnd
    \/ SaveSession

Spec == Init /\ [][Next]_vars

(***************************************************************************)
(* clean_faq_levels applied to one cell (process_table, line 252)          *)
(***************************************************************************)
CellInit ==
    /\ MapperOff
    /\ CorrectorOff
    /\ cellIn \in CellInputs
    /\ cellOut = <<>>
    /\ cellRow = NoRow
    /\ cellPc = "cell"

ParseCell ==
    /\ cellPc = "cell"
    /\ cellOut' = clean_faq_levels(cellIn)
    /\ cellRow' = process_row(cellIn)
    /\ cellPc' = "parsed"
    /\ UNCHANGED <<cellIn, mvars, kvars>>

CellNext == ParseCell

CellSpec == CellInit /\ [][CellNext]_vars

(***************************************************************************)
(* The FAQ Corrector script, lines 385-450, and the session                *)
(***************************************************************************)
\* lines 405-424: the two select boxes offer every column of the uploaded table
SelectColumns ==
    /\ kpc = "uploaded"
    /\ faq_col_c' \in SeqRange(df_c0.columns)
    /\ faq_col_d' \in SeqRange(df_d0.columns)
    /\ kpc' = "button"
    /\ UNCHANGED <<df_c0, df_d0, df_c, df_d, c_processed, d_processed, c_grouped,
                   d_grouped, kerror, corrector_state, session0, mvars, cvars>>

\* line 428: the button was not pressed in this execution
CorrectorNoClick ==
    /\ kpc = "button"
    /\ kpc' = "idle"
    /\ UNCHANGED <<df_c0, df_d0, faq_col_c, faq_col_d, df_c, df_d, c_processed,
                   d_processed, c_grouped, d_grouped, kerror, corrector_state,
                   session0, mvars, cvars>>

\* lines 431-432
RenameColumns ==
    /\ kpc = "button"
    /\ df_c' = [df_c EXCEPT !.columns = rename_fail_pass_columns(@)]
    /\ df_d' = [df_d EXCEPT !.columns = rename_fail_pass_columns(@)]
    /\ kpc' = "renamed"
    /\ UNCHANGED <<df_c0, df_d0, faq_col_c, faq_col_d, c_processed, d_processed,
                   c_grouped, d_grouped, kerror, corrector_state, session0, mvars, cvars>>

\* on_exception that keeps what the run had computed
on_exception_stores(state, partial) ==
    [state EXCEPT !.stored = TRUE, !.c_processed = partial]

\* lines 449-450: the handler reports the error and stores nothing
on_exception(state, partial) == state

\* line 434
ProcessC ==
    /\ kpc = "renamed"
    /\ c_processed' = process_table(df_c, faq_col_c)
    /\ IF c_processed'.raised
       THEN /\ kpc' = "failed"
            /\ kerror' = [kind |-> "exception", cols |-> <<>>]
            /\ corrector_state' = on_exception(corrector_state, NoTable)
       ELSE /\ kpc' = "processed_c"
            /\ kerror' = kerror
            /\ corrector_state' = corrector_state
    /\ UNCHANGED <<df_c0, df_d0, faq_col_c, faq_col_d, df_c, df_d, d_processed,
                   c_grouped, d_grouped, session0, mvars, cvars>>

\* line 435
ProcessD ==
    /\ kpc = "processed_c"
    /\ d_processed' = process_table(df_d, faq_col_d)
    /\ IF d_processed'.raised
       THEN /\ kpc' = "failed"
            /\ kerror' = [kind |-> "exception", cols |-> <<>>]
            /\ corrector_state' = on_exception(corrector_state, c_processed)
       ELSE /\ kpc' = "processed"
            /\ kerror' = kerror
            /\ corrector_state' = corrector_state
    /\ UNCHANGED <<df_c0, df_d0, faq_col_c, faq_col_d, df_c, df_d, c_processed,
                   c_grouped, d_grouped, session0, mvars, cvars>>

\* lines 437-438
GroupTables ==
    /\ kpc = "processed"
    /\ c_grouped' = group_table(c_processed)
    /\ d_grouped' = group_table(d_processed)
    /\ kpc' = "grouped"
    /\ UNCHANGED <<df_c0, df_d0, faq_col_c, faq_col_d, df_c, df_d, c_processed,
                   d_processed, kerror, corrector_state, session0, mvars, cvars>>

\* lines 441-444
StoreResults ==
    /\ kpc = "grouped"
    /\ corrector_state' = store_results(c_processed, d_processed, c_grouped, d_grouped)
    /\ kpc' = "done"
    /\ UNCHANGED <<df_c0, df_d0, faq_col_c, faq_col_d, df_c, df_d, c_processed,
                   d_processed, c_grouped, d_grouped, kerror, session0, mvars, cvars>>

CorrectorNext ==
    \/ SelectColumns
    \/ CorrectorNoClick
    \/ RenameColumns
    \/ ProcessC
    \/ ProcessD
    \/ GroupTables
    \/ StoreResults

\* what an earlier FAQ Mapper run of the same session stored
PreviousMapped ==
    [stored |-> TRUE,
     df |-> <<[raw |-> Str(<<"z">>), faq_clean |-> <<"z">>, faq_mapped |-> Null,
               mapping_score |-> 0, levels |-> NoLevels, mapping_status |-> "Unmapped"]>>]

\* an execution in FAQ Corrector mode
CorrectorInit ==
    /\ CorrectorInputs
    /\ kpc = "uploaded"
    /\ CorrectorFresh
    /\ MapperOff
    /\ CellOff

\* an execution in FAQ Mapper mode, in a session that may hold an earlier result
MapperResumed ==
    /\ MapperInputs
    /\ threshold = SliderDefault
    /\ Len(evalRaw) <= 2
    /\ pc = "uploaded"
    /\ MapperLocals
    /\ mapped_df \in {NotStored, PreviousMapped}
    /\ df_c0 = NoTable
    /\ df_d0 = NoTable
    /\ session0 = [corrector |-> NoResults, mapped_df |-> mapped_df]
    /\ corrector_state = NoResults
    /\ kpc = "off"
    /\ CorrectorFresh
    /\ CellOff

SessionInit == CorrectorInit \/ MapperResumed

SessionNext == CorrectorNext \/ Next

SessionSpec == SessionInit /\ [][SessionNext]_vars

(***************************************************************************)
(* What the claims are stated in: the dictionary's first occurrences and   *)
(* the best score, computed from the uploaded files and the scorer         *)
(***************************************************************************)
DictClean(k) == soft_clean_text_mapper(dictRows[k].full_faq)

\* rows of the uploaded dictionary that are the first with their cleaned text
FirstOccurrences ==
    {k \in 1..Len(dictRows) : \A j \in 1..(k - 1) : DictClean(j) # DictClean(k)}

ScoresOf(text) == {metric[<<text, DictClean(k)>>] : k \in FirstOccurrences}

BestScore(text) == CHOOSE b \in ScoresOf(text) : \A x \in ScoresOf(text) : x <= b

\* the first row of the dictionary that reaches the best score
BestEntry(text, best) ==
    CHOOSE k \in FirstOccurrences :
        /\ metric[<<text, DictClean(k)>>] = best
        /\ \A j \in FirstOccurrences : metric[<<text, DictClean(j)>>] = best => k <= j

\* the first occurrence whose cleaned text is t, or 0
EntryWithText(t) ==
    IF \E k \in FirstOccurrences : DictClean(k) = t
    THEN CHOOSE k \in FirstOccurrences : DictClean(k) = t
    ELSE 0

\* keyword k is contained in the text and its target is in the dictionary
KeywordResolves(k, text) ==
    /\ Contains(keyword_mappings[k][1], text)
    /\ EntryWithText(soft_clean_text_mapper(Str(keyword_mappings[k][2]))) # 0

\* the first keyword that resolves for the text, or 0
FirstResolving(text) ==
    IF \E k \in 1..Len(keyword_mappings) : KeywordResolves(k, text)
    THEN CHOOSE k \in 1..Len(keyword_mappings) :
            /\ KeywordResolves(k, text)
            /\ \A j \in 1..(k - 1) : ~KeywordResolves(j, text)
    ELSE 0

UpTo(n) == [i \in 1..n |-> i]

NoRepeats(q) == \A i, j \in 1..Len(q) : q[i] = q[j] => i = j

IsMapped(row) == row.mapping_status \in {"Mapped (Fuzzy)", "Mapped (Keyword)"}

PostFuzzy == pc \in {"keyword", "kwloop", "save", "done"}

KeywordStageRan == pc \in {"save", "done"} /\ use_keywords /\ keyword_mappings # <<>>

\* the keyword loop is done with row idx
ScanOver(idx) ==
    /\ pc \in {"kwloop", "save", "done"}
    /\ idx \in SeqRange(kwVisited)
    /\ idx \notin SeqRange(kwRows)

(***************************************************************************)
(* C1: in a mapping run every record starts unmapped, is passed to the     *)
(* fuzzy matcher exactly once and is visited by the keyword loop at most   *)
(* once and only if the fuzzy stage left it Unmapped; once a record is     *)
(* Mapped (Fuzzy) or Mapped (Keyword) no later step changes its status,    *)
(* score, matched text or levels.                                          *)
(***************************************************************************)
C1_State ==
    /\ ~PostFuzzy =>
          \A i \in 1..Len(eval_df) :
              /\ ~IsMapped(eval_df[i])
              /\ eval_df[i].faq_mapped = Null
              /\ eval_df[i].levels = NoLevels
    /\ fuzzyCalls = UpTo(Len(fuzzyCalls))
    /\ Len(fuzzyCalls) <= Len(evalRaw)
    /\ PostFuzzy => fuzzyCalls = UpTo(Len(evalRaw)) /\ Len(eval_df) = Len(evalRaw)
    /\ NoRepeats(kwVisited)
    /\ \A n \in 1..Len(kwVisited) : fuzzy_df[kwVisited[n]].mapping_status = "Unmapped"
    /\ KeywordStageRan =>
          SeqRange(kwVisited) =
              {i \in 1..Len(fuzzy_df) : fuzzy_df[i].mapping_status = "Unmapped"}

C1_Step ==
    \A i \in 1..Len(eval_df) :
        IsMapped(eval_df[i]) => Len(eval_df') >= i /\ eval_df'[i] = eval_df[i]

C1_RecordLifecycle == [](C1_State) /\ [][C1_Step]_vars

C1_Witness ==
    /\ pc = "done"
    /\ kwVisited # <<>>
    /\ \E i, j \in 1..Len(eval_df) :
          /\ eval_df[i].mapping_status = "Mapped (Fuzzy)"
          /\ eval_df[j].mapping_status = "Mapped (Keyword)"

(***************************************************************************)
(* C2: after the fuzzy stage, a record with non-empty cleaned text whose   *)
(* best score over the deduplicated dictionary reaches the threshold is    *)
(* Mapped (Fuzzy) with that score, the cleaned text of the first           *)
(* best-scoring entry and that entry's six levels; otherwise it is         *)
(* Unmapped with no matched text and no levels.                            *)
(***************************************************************************)
C2_FuzzyStage ==
    pc = "keyword" =>
        /\ Len(eval_df) = Len(evalRaw)
        /\ \A i \in 1..Len(eval_df) :
              LET text == soft_clean_text_mapper(evalRaw[i])
                  row == eval_df[i]
              IN  text # <<>> =>
                      LET best == BestScore(text)
                          entry == BestEntry(text, best)
                      IN  IF best >= threshold
                          THEN /\ row.mapping_status = "Mapped (Fuzzy)"
                               /\ row.mapping_score = best
                               /\ row.faq_mapped = Str(DictClean(entry))
                               /\ row.levels = dictRows[entry].levels
                          ELSE /\ row.mapping_status = "Unmapped"
                               /\ row.mapping_score = best
                               /\ row.faq_mapped = Null
                               /\ row.levels = NoLevels

\* a record matched to the entry that has a duplicate, one left unmatched
C2_Witness ==
    /\ pc = "keyword"
    /\ dictRows = DictionaryDup
    /\ \E i, j \in 1..Len(eval_df) :
          /\ eval_df[i].mapping_status = "Mapped (Fuzzy)"
          /\ eval_df[i].faq_mapped = Str(<<"a">>)
          /\ eval_df[j].mapping_status = "Unmapped"
          /\ eval_df[j].faq_clean # <<>>

(***************************************************************************)
(* C3: the keyword loop examines the keywords of the table in insertion    *)
(* order; a record is mapped by the first keyword that is contained in its *)
(* cleaned text and whose cleaned target is in the deduplicated            *)
(* dictionary, and the scan stops there; a contained keyword whose target  *)
(* is not in the dictionary is passed over without error.                  *)
(***************************************************************************)
C3_KeywordScan ==
    /\ pc \in {"kwloop", "save"} => error = NoError
    /\ \A idx \in 1..Len(kwScanned) :
          /\ kwScanned[idx] = UpTo(Len(kwScanned[idx]))
          /\ ScanOver(idx) =>
                LET first == FirstResolving(eval_df[idx].faq_clean)
                IN  IF first # 0
                    THEN /\ kwScanned[idx] = UpTo(first)
                         /\ eval_df[idx].mapping_status = "Mapped (Keyword)"
                         /\ eval_df[idx].faq_mapped =
                                Str(soft_clean_text_mapper(Str(keyword_mappings[first][2])))
                    ELSE /\ kwScanned[idx] = UpTo(Len(keyword_mappings))
                         /\ eval_df[idx].mapping_status = "Unmapped"

\* a record whose scan passed a contained keyword with a missing target and
\* stopped at the next one, before the end of the table
C3_Witness ==
    \E idx \in 1..Len(kwScanned) :
        /\ ScanOver(idx)
        /\ Len(kwScanned[idx]) < Len(keyword_mappings)
        /\ \E k \in 1..(Len(kwScanned[idx]) - 1) :
              /\ Contains(keyword_mappings[k][1], eval_df[idx].faq_clean)
              /\ ~KeywordResolves(k, eval_df[idx].faq_clean)
        /\ eval_df[idx].mapping_status = "Mapped (Keyword)"

(***************************************************************************)
(* C4: a record the keyword fallback maps ends with status Mapped          *)
(* (Keyword), score 100, the cleaned target as matched text and the six    *)
(* levels of the dictionary entry whose cleaned text is that target.       *)
(***************************************************************************)
C4_KeywordResult ==
    pc \in {"save", "done"} =>
        \A idx \in SeqRange(kwVisited) :
            LET first == FirstResolving(soft_clean_text_mapper(evalRaw[idx]))
                target == soft_clean_text_mapper(Str(keyword_mappings[first][2]))
                row == eval_df[idx]
            IN  first # 0 =>
                    /\ row.mapping_status = "Mapped (Keyword)"
                    /\ row.mapping_score = 100
                    /\ row.faq_mapped = Str(target)
                    /\ row.levels = dictRows[EntryWithText(target)].levels

\* a keyword-mapped record whose fuzzy score was 50 and whose target entry
\* has a duplicate in the uploaded dictionary
C4_Witness ==
    /\ pc = "done"
    /\ dictRows = DictionaryDup
    /\ \E idx \in SeqRange(kwVisited) :
          /\ fuzzy_df[idx].mapping_score = SliderMin
          /\ eval_df[idx].mapping_status = "Mapped (Keyword)"
          /\ eval_df[idx].faq_mapped = Str(<<"a">>)

(***************************************************************************)
(* C5: at the end of a complete run a record whose status is Unmapped      *)
(* carries the best fuzzy score found for it in the fuzzy stage (0 only    *)
(* when that best score is 0 or its cleaned text is empty), and a record   *)
(* the fuzzy stage left Unmapped that contains no keyword stays Unmapped.  *)
(***************************************************************************)
C5_UnmappedScore ==
    pc = "done" =>
        \A i \in 1..Len(eval_df) :
            LET text == soft_clean_text_mapper(evalRaw[i])
                row == eval_df[i]
            IN  /\ row.mapping_status = "Unmapped" =>
                      row.mapping_score = IF text = <<>> THEN 0 ELSE BestScore(text)
                /\ (/\ fuzzy_df[i].mapping_status = "Unmapped"
                    /\ \A k \in 1..Len(keyword_mappings) :
                          ~Contains(keyword_mappings[k][1], text))
                      => row.mapping_status = "Unmapped"

\* after a keyword stage that mapped some record, another one is still
\* Unmapped with the score 50 it got below the threshold
C5_Witness ==
    /\ pc = "done"
    /\ keyword_mapped > 0
    /\ \E i \in 1..Len(eval_df) :
          /\ eval_df[i].mapping_status = "Unmapped"
          /\ eval_df[i].mapping_score = SliderMin
          /\ threshold > SliderMin

(***************************************************************************)
(* C6, as it holds: for every threshold from 1 to 100, so for every        *)
(* position of the slider, a record whose FAQ text is empty or absent      *)
(* leaves the fuzzy stage with score 0 and status Unmapped, and the scorer *)
(* is not invoked for it.                                                  *)
(***************************************************************************)
EmptyTextOutcome(thr) ==
    LET r == fuzzy_map_faq(<<>>, choices, thr)
    IN  /\ ~r.raised
        /\ ~r.scored
        /\ r.match = Null
        /\ r.score = 0
        /\ status_of_score(r.score, thr) = "Unmapped"

HeaderHas(c) ==
    \E n \in 1..Len(dictColsRaw) : colStrip(colLower(dictColsRaw[n])) = c

HeaderLacks == {c \in SeqRange(required_cols) : ~HeaderHas(c)}

C7_MissingColumns ==
    HeaderLacks # {} =>
        /\ pc \in {"uploaded", "stopped"}
        /\ pc = "stopped" =>
              /\ error.kind = "FAQ Dictionary missing columns"
              /\ SeqRange(error.cols) = HeaderLacks
              /\ Len(error.cols) = Cardinality(HeaderLacks)
        /\ eval_df = uploaded_eval(evalRaw)
        /\ faq_dict = uploaded_dict(dictRows)
        /\ fuzzyCalls = <<>>
        /\ scorerCalls = <<>>
        /\ kwVisited = <<>>
        /\ mapped_df = NotStored

\* stopped on a header that lacks two columns
C7_Witness ==
    /\ pc = "stopped"
    /\ Cardinality(HeaderLacks) = 2
    /\ evalRaw # <<>>

(***************************************************************************)
(* C8: for every cell (a string, null or a number) clean_faq_levels        *)
(* returns a sequence of exactly 5 elements, and it is defined on every    *)
(* cell.                                                                   *)
(***************************************************************************)
C8_FiveLevels ==
    /\ cellPc = "cell" => DOMAIN clean_faq_levels(cellIn) = 1..5
    /\ cellPc = "parsed" => DOMAIN cellOut = 1..5

\* a cell of six parts, cut to five
C8_Witness ==
    /\ cellPc = "parsed"
    /\ cellIn = Str(<<"a", "B", "a", "B", "a", "B", "a", "B", "a", "B">>)
    /\ cellOut[5] = Str(<<"B", "a">>)

(***************************************************************************)
(* C9: clean_faq_levels returns five absent levels for a null cell and     *)
(* for the strings "null" and "undefined".                                 *)
(***************************************************************************)
C9_NullLiterals ==
    (cellPc = "parsed" /\ cellIn \in {Null, StrNull, StrUndefined})
        => cellOut = [i \in 1..5 |-> Null]

(***************************************************************************)
(* C10: every level clean_faq_levels returns is absent or a non-empty      *)
(* string without leading or trailing white space, and no level follows    *)
(* an absent one.                                                          *)
(***************************************************************************)
IsLevelText(v) ==
    /\ v.kind = "str"
    /\ v.chars # <<>>
    /\ v.chars[1] \notin WhiteSpace
    /\ v.chars[Len(v.chars)] \notin WhiteSpace

C10_LevelsShape ==
    cellPc = "parsed" =>
        /\ \A i \in DOMAIN cellOut : cellOut[i] = Null \/ IsLevelText(cellOut[i])
        /\ \A i, j \in DOMAIN cellOut : (i < j /\ cellOut[i] = Null) => cellOut[j] = Null

\* blanks around the separators and an empty part: one level, then absent ones
C10_Witness ==
    /\ cellPc = "parsed"
    /\ cellIn = Str(<<" ", "|", "b", " ", "|">>)
    /\ cellOut[1] = Str(<<"b">>)
    /\ cellOut[2] = Null

(***************************************************************************)
(* FAQ Corrector: what the claims are stated in                            *)
(***************************************************************************)
\* the sum of a sequence of integers
TotalOf(q) ==
    LET F[i \in 0..Len(q)] == IF i = 0 THEN 0 ELSE F[i - 1] + q[i]
    IN  F[Len(q)]

\* the script is past line 438
Grouped == kpc \in {"grouped", "done"}

\* the script is past line 432
Renamed == kpc \in {"renamed", "processed_c", "processed", "grouped", "done", "failed"}

\* the name after position i starts with "Unnamed"
FollowedByUnnamed(cols, i) ==
    /\ i < Len(cols)
    /\ Len(cols[i + 1]) >= 7
    /\ \A k \in 1..7 : cols[i + 1][k] = Unnamed[k]

\* the positions a left-to-right scan stops at, when it advances by 2 over a
\* name followed by an unnamed one and by 1 otherwise
ScanPositions(cols) ==
    LET V[i \in 1..Len(cols)] ==
            IF i = 1 THEN TRUE
            ELSE \/ V[i - 1] /\ ~FollowedByUnnamed(cols, i - 1)
                 \/ i > 2 /\ V[i - 2] /\ FollowedByUnnamed(cols, i - 2)
    IN  {i \in 1..Len(cols) : V[i]}

LowerTrimmed(name) == Strip([k \in 1..Len(name) |-> lowerChar(name[k])])

\* C11: for a processed table with a numeric column, the total of every numeric
\* column over the grouped records equals its total over the input rows, and
\* every input row, rows with absent levels included, falls in exactly one
\* grouped record
MassPreserved(processed, grouped) ==
    LET num == numeric_cols(processed)
    IN  /\ Len(grouped.columns) = Len(num)
        /\ \A k \in 1..Len(num) :
              TotalOf([g \in 1..Len(grouped.rows) |-> grouped.rows[g].sums[k]])
                = TotalOf([r \in 1..Len(processed.rows) |->
                              addend(processed.rows[r].cells[num[k]])])
        /\ \A r \in 1..Len(processed.rows) :
              Cardinality({g \in 1..Len(grouped.rows) :
                              grouped.rows[g].group = group_of(processed.rows[r])}) = 1

C11_GroupSum ==
    Grouped =>
        /\ c_grouped.grouped => MassPreserved(c_processed, c_grouped)
        /\ d_grouped.grouped => MassPreserved(d_processed, d_grouped)

\* two rows of one group with absent levels, and a second group
C11_Witness ==
    /\ Grouped
    /\ c_grouped.grouped
    /\ Len(c_processed.rows) = 2
    /\ isna(c_grouped.rows[1].group[6])
    /\ \E g \in 1..Len(c_grouped.rows) : c_grouped.rows[g].sums[1] = 14
    /\ d_grouped.grouped

\* C12: at every position the left-to-right scan stops at whose next name
\* starts with "Unnamed", the output holds <lowercased trimmed name>_fail and
\* then <the same>_pass in place of the two names; ["rc1_service", "Unnamed: 1"]
\* becomes ["rc1_service_fail", "rc1_service_pass"]; the output has as many
\* names as the input
PairsRenamed(before, after) ==
    /\ Len(after) = Len(before)
    /\ \A i \in ScanPositions(before) :
          FollowedByUnnamed(before, i) =>
              /\ after[i] = LowerTrimmed(before[i]) \o <<"_", "f", "a", "i", "l">>
              /\ after[i + 1] = LowerTrimmed(before[i]) \o <<"_", "p", "a", "s", "s">>

C12_PairsRenamed ==
    Renamed =>
        /\ PairsRenamed(df_c0.columns, df_c.columns)
        /\ PairsRenamed(df_d0.columns, df_d.columns)
        /\ df_d0.columns = <<Rc1Service, Unnamed1>> =>
              df_d.columns = <<Rc1Service \o FailSuffix, Rc1Service \o PassSuffix>>

\* a pair whose first name is in upper case, and the pair of the example
C12_Witness ==
    /\ Renamed
    /\ df_c0.columns = <<NameA, Unnamed1, NameFaq>>
    /\ df_c.columns[2] = <<"a", "_", "p", "a", "s", "s">>
    /\ df_d0.columns = <<Rc1Service, Unnamed1>>

\* C13: every name that is not part of a fail/pass pair is emitted unchanged at
\* the same position
Unpaired(before) ==
    {i \in ScanPositions(before) : ~FollowedByUnnamed(before, i)}

C13_UnpairedUnchanged ==
    Renamed =>
        /\ Len(df_c.columns) = Len(df_c0.columns)
        /\ \A i \in Unpaired(df_c0.columns) : df_c.columns[i] = df_c0.columns[i]

\* the Key as the single-space join of the normalized levels, the absent ones
\* and the literal None left out
KeyOf(levels) ==
    LET skip(x) == isna(x) \/ x.chars = <<>> \/ x.chars = <<"N", "o", "n", "e">>
        K[i \in 0..Len(levels)] ==
            IF i = 0 THEN [n |-> 0, text |-> <<>>]
            ELSE IF skip(levels[i]) THEN K[i - 1]
                 ELSE [n |-> K[i - 1].n + 1,
                       text |-> IF K[i - 1].n = 0 THEN soft_clean_text(levels[i])
                                ELSE K[i - 1].text \o <<" ">> \o soft_clean_text(levels[i])]
    IN  K[Len(levels)].text

RECURSIVE WidenSpaces(_)
\* every space of s followed by a tab
WidenSpaces(s) ==
    IF s = <<>> THEN <<>>
    ELSE IF Head(s) = " " THEN <<" ", "\t">> \o WidenSpaces(Tail(s))
         ELSE <<Head(s)>> \o WidenSpaces(Tail(s))

\* texts that differ from s in double quotes only
QuotingVariants(s) ==
    {SelectSeq(s, LAMBDA c : c # "\""), <<"\"">> \o s \o <<"\"">>, s \o <<"\"">>}

\* texts that differ from s in the length of its runs of spaces and tabs only
WhitespaceVariants(s) ==
    {<<" ">> \o s \o <<"\t", " ">>, WidenSpaces(s)}

\* texts that differ from s in letter case only
CaseVariants(s) == {[k \in 1..Len(s) |-> lowerChar(s[k])]}

KeyOfCell(s) == build_faq_key(clean_faq_levels(Str(s)))

\* C14 (as amended): the Key is the single-space join of the normalized
\* Level1..Level5, absent and literal-None levels contributing nothing, and a
\* text that differs from the record's only in double quotes or in the length
\* of its runs of spaces and tabs gets the same Key
C14_Key ==
    cellPc = "parsed" =>
        /\ cellRow.key = KeyOf(cellOut)
        /\ cellIn.kind = "str" =>
              \A v \in QuotingVariants(cellIn.chars) \cup WhitespaceVariants(cellIn.chars) :
                  KeyOfCell(v) = cellRow.key

\* C14 (as stated): ... and a text that differs from the record's only in
\* letter case, whitespace or quoting gets the same Key
C14_AsClaimed ==
    cellPc = "parsed" =>
        /\ cellRow.key = KeyOf(cellOut)
        /\ cellIn.kind = "str" =>
              \A v \in QuotingVariants(cellIn.chars) \cup WhitespaceVariants(cellIn.chars)
                          \cup CaseVariants(cellIn.chars) :
                  KeyOfCell(v) = cellRow.key

\* a quoted text with a space, a literal None level and an absent level
C14_Witness ==
    /\ cellPc = "parsed"
    /\ cellIn = Str(<<"a", "|", "N", "o", "n", "e", "|", "b">>)
    /\ cellRow.key = <<"a", " ", "b">>
    /\ isna(cellOut[4])

\* C15: Question is Level5 when Level5 is present, otherwise Level4 when Level4
\* is present, otherwise absent
C15_Question ==
    cellPc = "parsed" =>
        /\ ~isna(cellOut[5]) => cellRow.question = cellOut[5]
        /\ isna(cellOut[5]) /\ ~isna(cellOut[4]) => cellRow.question = cellOut[4]
        /\ isna(cellOut[5]) /\ isna(cellOut[4]) => isna(cellRow.question)

\* both levels present and different: Level5 wins
C15_Witness ==
    /\ cellPc = "parsed"
    /\ ~isna(cellOut[5])
    /\ cellOut[5] # cellOut[4]
    /\ cellRow.question = cellOut[5]

\* the FAQ Mapper run has finished both stages for every row
MappingComplete ==
    /\ Len(mapped) = Len(eval_df)
    /\ \A i \in 1..Len(eval_df) :
          eval_df[i].mapping_status \in {"Mapped (Fuzzy)", "Mapped (Keyword)", "Unmapped"}
    /\ (use_keywords /\ keyword_mappings # <<>>) =>
          /\ kwRows = <<>>
          /\ kwVisited = unmapped_index(fuzzy_df)

\* both files are processed and grouped
CorrectorComplete ==
    /\ ~c_processed.raised /\ Len(c_processed.rows) = Len(df_c0.rows)
    /\ ~d_processed.raised /\ Len(d_processed.rows) = Len(df_d0.rows)
    /\ Len(c_processed.rows) > 0 /\ Len(d_processed.rows) > 0
    /\ c_grouped # NoTable
    /\ d_grouped # NoTable

C16_State ==
    /\ pc # "done" => mapped_df = session0.mapped_df
    /\ kpc # "done" => corrector_state = session0.corrector

C16_Step ==
    /\ mapped_df' # mapped_df =>
          /\ pc = "save" /\ pc' = "done"
          /\ MappingComplete
          /\ mapped_df' = [stored |-> TRUE, df |-> eval_df]
    /\ corrector_state' # corrector_state =>
          /\ kpc = "grouped" /\ kpc' = "done"
          /\ CorrectorComplete
          /\ corrector_state' =
                [stored |-> TRUE, c_processed |-> c_processed, d_processed |-> d_processed,
                 c_grouped |-> c_grouped, d_grouped |-> d_grouped]

\* C16: the stored mapping result is written only when the fuzzy stage and,
\* when enabled, the keyword stage have finished for all rows; the four
\* corrector tables are stored only when both files are processed and grouped;
\* until a run has finished, and so when it fails part-way, the session holds
\* what it held when the run started
C16_CompleteResults == [](C16_State) /\ [][C16_Step]_vars

\* File C was processed, File D failed, and the earlier result is still stored
C16_Witness ==
    /\ kpc = "failed"
    /\ ~c_processed.raised
    /\ c_processed # NoTable
    /\ d_processed.raised
    /\ session0.corrector.stored
    /\ corrector_state = session0.corrector

\* C17: the selected FAQ column still designates a column after
\* rename_fail_pass_columns, and the run does not fail
C17_SelectedColumnSurvives ==
    /\ Renamed =>
          /\ faq_col_c \in SeqRange(df_c.columns)
          /\ faq_col_d \in SeqRange(df_d.columns)
    /\ kpc # "failed"

====
